---- MODULE Spec2Model ----
(***************************************************************************)
(* CaffeServingSession (caffe_serving_session.cc): the adapter that owns   *)
(* one caffe::Net, its name->blob binding tables and its batch capacity,   *)
(* and serves Run / Reshape / CopyTrainedLayersFromBinaryProto.            *)
(*                                                                         *)
(* Blob indices are 1-based here (0-based in the source).  A blob is its   *)
(* shape, the number of elements its storage was allocated for, and a tag  *)
(* for what its storage holds.  A Run call is a sequence of steps (one per *)
(* statement group of the source) so that calls of two threads can         *)
(* interleave; the request is read where the source reads it.              *)
(***************************************************************************)
EXTENDS Integers, Sequences, FiniteSets, TLC

\* ---------------------------------------------------------------- bounds
MaxBatch == 2
MaxInputs == 2
MaxOutputs == 2
MaxGpus == 1
MaxInstances == 3

Threads == {1, 2}
WeightFiles == {"missing", "trained", "misshapen"}

\* ---------------------------------------------------------------- helpers
Max(a, b) == IF a > b THEN a ELSE b

RECURSIVE Prod(_)
Prod(s) == IF s = <<>> THEN 1 ELSE Head(s) * Prod(Tail(s))

Range(s) == {s[k] : k \in DOMAIN s}

\* What a blob's storage holds is a tag: zeros (the blob was (re)allocated),
\* the tensor of the call that thread t has in flight or has just returned
\* from, the tensor of an earlier call, or junk (a neighbour's copy overran
\* it).  An output blob holds the parameters and the input tags it was
\* computed from.
Zero == <<"0">>
Junk == <<"junk">>
Old == "old"
Tag(t) == IF t = 1 THEN "t1" ELSE "t2"

\* the call of thread t has become an earlier call
Age(d, t) == [k \in DOMAIN d |-> IF d[k] = Tag(t) THEN Old ELSE d[k]]
AgeNet(n, t) == [n EXCEPT !.data = [i \in DOMAIN n.data |-> Age(n.data[i], t)]]

\* ---------------------------------------------------------------- topologies
\* names: blob_names(); inputs / outputs: input_blob_indices() /
\* output_blob_indices(); shapes: the declared shapes; bottom[i]: the input
\* blob whose leading dimension blob i's layer copies to its top (0: none)
Single ==
    [names |-> <<"data", "feat", "prob">>, inputs |-> <<1>>, outputs |-> <<2, 3>>,
     shapes |-> << <<1, 2>>, <<1, 3>>, <<1, 2>> >>, bottom |-> <<0, 1, 1>>]

Uneven ==
    [names |-> <<"data", "aux", "prob">>, inputs |-> <<1, 2>>, outputs |-> <<3>>,
     shapes |-> << <<1, 2>>, <<2, 2>>, <<1, 2>> >>, bottom |-> <<0, 0, 1>>]

Pair ==
    [names |-> <<"data", "aux", "prob">>, inputs |-> <<1, 2>>, outputs |-> <<3>>,
     shapes |-> << <<1, 2>>, <<1, 2>>, <<1, 2>> >>, bottom |-> <<0, 0, 1>>]

Flat ==
    [names |-> <<"void", "label", "prob">>, inputs |-> <<1, 2>>, outputs |-> <<3>>,
     shapes |-> << <<0, 2>>, <<2>>, <<1, 2>> >>, bottom |-> <<0, 0, 0>>]

Sourceless ==
    [names |-> <<"prob">>, inputs |-> <<>>, outputs |-> <<1>>,
     shapes |-> << <<1, 2>> >>, bottom |-> <<0>>]

Mixed ==
    [names |-> <<"data", "label", "prob">>, inputs |-> <<1, 2>>, outputs |-> <<3>>,
     shapes |-> << <<1, 2>>, <<2>>, <<1, 2>> >>, bottom |-> <<0, 0, 1>>]

Solo ==
    [names |-> <<"data", "prob">>, inputs |-> <<1>>, outputs |-> <<2>>,
     shapes |-> << <<1, 2>>, <<1, 2>> >>, bottom |-> <<0, 1>>]

Topologies == {Single, Uneven, Pair, Flat, Sourceless, Mixed}

\* the topology of an adapter that two threads share
SharedTopologies == {Solo}

\* the shapes of the tensors a caller sends: (b, 2) and (b)
TensorShapes == {<<b, 2>> : b \in 0..MaxBatch} \cup {<<b>> : b \in 1..MaxBatch}

InputNames(g) == {g.names[g.inputs[k]] : k \in DOMAIN g.inputs} \cup {"bogus"}
OutputNames(g) == {g.names[g.outputs[k]] : k \in DOMAIN g.outputs} \cup {"bogus"}

\* ---------------------------------------------------------------- caffe::Blob, caffe::Net
\* Blob::Reshape: storage is kept while the new count fits, else reallocated
BlobReshape(n, i, new_shape) ==
    IF Prod(new_shape) > n.alloc[i]
    THEN [shape |-> [n.shape EXCEPT ![i] = new_shape],
          alloc |-> [n.alloc EXCEPT ![i] = Prod(new_shape)],
          data |-> [n.data EXCEPT ![i] = Zero]]
    ELSE [n EXCEPT !.shape[i] = new_shape]

\* Net::Reshape: every layer derives its top's shape from its bottom's
RECURSIVE PropagateFrom(_, _, _)
PropagateFrom(g, n, i) ==
    IF i > Len(g.names) THEN n
    ELSE PropagateFrom(g,
            IF g.bottom[i] # 0
            THEN BlobReshape(n, i, <<n.shape[g.bottom[i]][1], g.shapes[i][2]>>)
            ELSE n,
            i + 1)

NetReshape(g, n) == PropagateFrom(g, n, 1)

\* new caffe::Net<float>(graph)
NetInit(g) ==
    NetReshape(g,
        [shape |-> [i \in 1..Len(g.names) |-> g.shapes[i]],
         alloc |-> [i \in 1..Len(g.names) |-> Prod(g.shapes[i])],
         data |-> [i \in 1..Len(g.names) |-> Zero]])

RECURSIVE InputData(_, _, _)
InputData(g, n, k) ==
    IF k > Len(g.inputs) THEN <<>>
    ELSE n.data[g.inputs[k]] \o InputData(g, n, k + 1)

IsOutput(g, i) == \E k \in DOMAIN g.outputs : g.outputs[k] = i

\* mutant: the forward pass computes nothing
NetForwardSkipped(g, n, w) == NetReshape(g, n)

\* Net::Forward: the layers reshape, then every output blob is computed from
\* the parameters and from what the input blobs hold
NetForward(g, n, w) ==
    LET m == NetReshape(g, n)
    IN [m EXCEPT !.data = [i \in DOMAIN m.data |->
            IF IsOutput(g, i) THEN <<w>> \o InputData(g, m, 1) ELSE m.data[i]]]

\* Blob::channels(): LegacyShape(1)
Channels(shape) == IF Len(shape) > 1 THEN shape[2] ELSE 1

\* ---------------------------------------------------------------- BatchSizeOf
\* mutant: a blob of rank 1 counts as well
QualifiesAnyRank(shape) == Len(shape) > 0 /\ shape[1] > 0

\* lines 67 and 226: shape.size() > 1 && shape[0] > 0
Qualifies(shape) == Len(shape) > 1 /\ shape[1] > 0

RECURSIVE BatchSizeFrom(_, _, _, _)
BatchSizeFrom(g, n, k, x) ==
    IF k > Len(g.inputs) THEN x
    ELSE BatchSizeFrom(g, n, k + 1,
            IF Qualifies(n.shape[g.inputs[k]])
            THEN Max(x, n.shape[g.inputs[k]][1]) ELSE x)

\* mutant: the estimate starts from 0
BatchSizeOfFromZero(g, n) == BatchSizeFrom(g, n, 1, 0)

\* lines 63-72: x = 1, then the maximum over the input blobs
BatchSizeOf(g, n) == BatchSizeFrom(g, n, 1, 1)

\* ---------------------------------------------------------------- binding tables
\* emplace keeps the first index of a name
BlobMap(g, idxs) ==
    [nm \in {g.names[idxs[k]] : k \in DOMAIN idxs} |->
        idxs[CHOOSE k \in DOMAIN idxs :
                /\ g.names[idxs[k]] = nm
                /\ \A l \in DOMAIN idxs : g.names[idxs[l]] = nm => k <= l]]

\* ---------------------------------------------------------------- Reshape
\* mutant: every input blob is resized
RECURSIVE ReshapeInputsAll(_, _, _, _)
ReshapeInputsAll(g, n, k, batch_size) ==
    IF k > Len(g.inputs) THEN n
    ELSE LET idx == g.inputs[k]
             new_shape == n.shape[idx]
         IN ReshapeInputsAll(g,
                BlobReshape(n, idx, [new_shape EXCEPT ![1] = batch_size]),
                k + 1, batch_size)

\* lines 224-232
RECURSIVE ReshapeInputs(_, _, _, _)
ReshapeInputs(g, n, k, batch_size) ==
    IF k > Len(g.inputs) THEN n
    ELSE LET idx == g.inputs[k]
             new_shape == n.shape[idx]
         IN ReshapeInputs(g,
                IF Qualifies(new_shape)
                THEN BlobReshape(n, idx, [new_shape EXCEPT ![1] = batch_size])
                ELSE n,
                k + 1, batch_size)

\* mutant: a requested batch of 1 is refused
ReshapeOffByOne(g, n, cap, batch_size) ==
    IF batch_size <= 1
    THEN [status |-> "InvalidArgument", net |-> n, batch_size_ |-> cap, props |-> 0]
    ELSE IF cap = batch_size
    THEN [status |-> "OK", net |-> n, batch_size_ |-> cap, props |-> 0]
    ELSE [status |-> "OK",
          net |-> NetReshape(g, ReshapeInputs(g, n, 1, batch_size)),
          batch_size_ |-> batch_size, props |-> 1]

\* CaffeServingSession::Reshape: the status, the net and batch_size_ after it,
\* and the number of calls of net_->Reshape() (line 233)
Reshape(g, n, cap, batch_size) ==
    IF batch_size <= 0
    THEN [status |-> "InvalidArgument", net |-> n, batch_size_ |-> cap, props |-> 0]
    ELSE IF cap = batch_size
    THEN [status |-> "OK", net |-> n, batch_size_ |-> cap, props |-> 0]
    ELSE [status |-> "OK",
          net |-> NetReshape(g, ReshapeInputs(g, n, 1, batch_size)),
          batch_size_ |-> batch_size, props |-> 1]

\* ---------------------------------------------------------------- Run, the checks
\* mutant: target nodes are ignored
ValidateRequestNoTargets(targets, nin, first, nbind) ==
    IF nin = 0 \/ nin < nbind THEN "count"
    ELSE IF Len(first) < 2 THEN "rank"
    ELSE IF first[1] < 1 THEN "batch"
    ELSE "ok"

\* mutant: only an empty request fails the count check
ValidateRequestNoCount(targets, nin, first, nbind) ==
    IF targets THEN "targets"
    ELSE IF nin = 0 THEN "count"
    ELSE IF Len(first) < 2 THEN "rank"
    ELSE IF first[1] < 1 THEN "batch"
    ELSE "ok"

\* lines 133-157: the first failing check of the request, or "ok"
ValidateRequest(targets, nin, first, nbind) ==
    IF targets THEN "targets"
    ELSE IF nin = 0 \/ nin < nbind THEN "count"
    ELSE IF Len(first) < 2 THEN "rank"
    ELSE IF first[1] < 1 THEN "batch"
    ELSE "ok"

\* mutant: reshape whenever the batch differs from the capacity
NeedsReshapeUnequal(cap, batch_size) == cap # batch_size

\* mutant: Reshape is called for a batch that just fits as well
NeedsReshapeAtLeast(cap, batch_size) == cap <= batch_size

\* line 159
NeedsReshape(cap, batch_size) == cap < batch_size

\* mutant: the batch size of an input is not compared
CheckInputNoBatch(map, name, shape, batch_size) ==
    IF name \notin DOMAIN map THEN "unknown_input" ELSE "ok"

\* lines 166-175: the check of one input pair
CheckInput(map, name, shape, batch_size) ==
    IF name \notin DOMAIN map THEN "unknown_input"
    ELSE IF shape[1] # batch_size THEN "batch_mismatch"
    ELSE "ok"

\* lines 177-179: copy_n of the tensor's elements into the blob's storage;
\* writing past the allocation is undefined: the process dies, or the
\* excess lands in the other blobs' storage, or in unused heap
CopyOutcomes(n, idx, shape) ==
    IF Prod(shape) > n.alloc[idx] THEN {"abort", "spill", "contained"} ELSE {"fits"}

CopyInput(n, idx, tag, outcome) ==
    IF outcome = "spill"
    THEN [n EXCEPT !.data = [i \in DOMAIN n.data |-> IF i = idx THEN <<tag>> ELSE Junk]]
    ELSE [n EXCEPT !.data[idx] = <<tag>>]

\* lines 189-193
CheckOutput(map, name) == IF name \notin DOMAIN map THEN "unknown_output" ELSE "ok"

\* lines 194-200: reading past the allocation is undefined: the process
\* dies or the tensor holds whatever follows the blob
ReadOutcomes(n, idx, batch_size) ==
    IF batch_size * Channels(n.shape[idx]) > n.alloc[idx]
    THEN {"abort", "overrun"} ELSE {"fits"}

\* mutant: the tensor takes the blob's leading dimension
OutputTensorRows(n, idx, batch_size, outcome) ==
    [blob |-> idx,
     shape |-> <<n.shape[idx][1], Channels(n.shape[idx])>>,
     data |-> IF outcome = "overrun" THEN Junk ELSE n.data[idx]]

OutputTensor(n, idx, batch_size, outcome) ==
    [blob |-> idx,
     shape |-> <<batch_size, Channels(n.shape[idx])>>,
     data |-> IF outcome = "overrun" THEN Junk ELSE n.data[idx]]

\* what the caller's result vector holds when Run is entered: a tensor of
\* an earlier use of the vector
StaleTensor == [blob |-> 0, shape |-> <<0, 0>>, data |-> Zero]

\* ---------------------------------------------------------------- state
VARIABLES
    graph,              \* the NetParameter the adapter was constructed from
    net,                \* net_: [shape, alloc, data] of every blob
    params,             \* the trained parameters of net_
    input_blob_map_,
    output_blob_map_,
    batch_size_,
    crashed,            \* the process was killed
    callers,            \* the threads that call this instance
    serialized,         \* the callers keep at most one call in flight
    run_only,           \* the owner calls nothing but Run
    th,                 \* per thread: the call in flight or just returned
    seen,               \* run_only: the largest batch size a Run has determined
    gpu_count,          \* the process: cudaGetDeviceCount (0 in a CPU_ONLY build)
    caffe_mode,         \* the process: caffe::Caffe::mode()
    caffe_device,       \* the process: the device of caffe::Caffe::SetDevice (-1: none)
    selections,         \* the process: the calls of TryAssignGPU so far
    instances           \* the process: the adapters constructed so far, each with
                        \* its topology and the batch_size_ its constructor set;
                        \* the first is the adapter of the variables above

vars == <<graph, net, params, input_blob_map_, output_blob_map_, batch_size_,
          crashed, callers, serialized, run_only, th, seen,
          gpu_count, caffe_mode, caffe_device, selections, instances>>

\* mutant: the devices are not looked at
TryAssignGPUBlind(count, device) == [mode |-> "CPU", device |-> device]

\* GetGPUs and TryAssignGPU (lines 75-99): the mode and the device the
\* process has after the call
TryAssignGPU(count, device) ==
    IF count > 0
    THEN [mode |-> "GPU", device |-> 0]
    ELSE [mode |-> "CPU", device |-> device]

\* the adapter's mutable state, as a call finds it when it is entered
Snapshot(n, cap) == [net |-> n, batch_size_ |-> cap]
NoSnapshot == [net |-> [shape |-> <<>>, alloc |-> <<>>, data |-> <<>>], batch_size_ |-> 0]

\* a thread's call: where it is (pc), the request as far as the call has
\* read it (targ, nin, first, names, dims, outs), its locals (batch), what it
\* returned (status, why, outputs), the argument of the Reshape that
\* returned success right before it (prev, else 0), and what it did (fwd: forward passes,
\* grew: calls of Reshape, cap0: batch_size_ at entry, reshaped / rewrote:
\* some blob's shape / contents differ from those at entry; entry is kept
\* where calls do not interleave, so that the difference is the call's own;
\* params0: the parameters a LoadWeights call found; shape0: the shapes a
\* Reshape call found; props: the shape propagations a Reshape call ran)
Idle ==
    [pc |-> "idle", op |-> "none", c |-> 0, file |-> "", targ |-> FALSE, nin |-> 0,
     first |-> <<>>, batch |-> 0, names |-> <<>>, dims |-> <<>>, outs |-> <<>>,
     outputs |-> <<>>, status |-> "", why |-> "", fwd |-> 0, grew |-> 0,
     entry |-> NoSnapshot, cap0 |-> 0, reshaped |-> FALSE, rewrote |-> FALSE,
     prev |-> 0, params0 |-> "", shape0 |-> <<>>, props |-> 0]

\* CaffeServingSession::CaffeServingSession
Construct(g, count) ==
    /\ graph = g
    /\ net = NetInit(g)
    /\ params = "w0"
    /\ input_blob_map_ = BlobMap(g, g.inputs)
    /\ output_blob_map_ = BlobMap(g, g.outputs)
    /\ batch_size_ = BatchSizeOf(g, NetInit(g))
    /\ crashed = FALSE
    /\ th = [t \in Threads |-> Idle]
    /\ seen = 0
    /\ gpu_count = count
    /\ caffe_mode = TryAssignGPU(count, -1).mode
    /\ caffe_device = TryAssignGPU(count, -1).device
    /\ selections = 1
    /\ instances = <<[graph |-> g, batch_size_ |-> BatchSizeOf(g, NetInit(g))]>>

\* one caller thread, on a host without GPU
Init ==
    /\ \E g \in Topologies : Construct(g, 0)
    /\ callers = {1}
    /\ serialized = TRUE
    /\ run_only \in BOOLEAN

\* two caller threads, with or without a serializing layer in front
InitConc ==
    /\ \E g \in SharedTopologies : Construct(g, 0)
    /\ callers = Threads
    /\ serialized \in BOOLEAN
    /\ run_only = TRUE

\* a process that constructs adapters, with or without GPUs
InitProc ==
    /\ \E g \in Topologies, count \in 0..MaxGpus : Construct(g, count)
    /\ callers = {}
    /\ serialized = TRUE
    /\ run_only = TRUE

\* a call that has returned hands its status and results to its caller
\* before any other thread takes a step
CanStep(t) ==
    /\ ~crashed
    /\ \A u \in Threads \ {t} : th[u].pc # "done"

CanCall(t) ==
    /\ CanStep(t)
    /\ t \in callers
    /\ th[t].pc = "idle"
    /\ serialized => \A u \in Threads : th[u].pc \in {"idle", "done"}

Fixed ==
    UNCHANGED <<graph, input_blob_map_, output_blob_map_, callers, serialized, run_only,
                gpu_count, caffe_mode, caffe_device, selections, instances>>

\* the call returns: n and cap are the adapter's state it leaves
Return(r, status, why, n, cap) ==
    [r EXCEPT !.pc = "done", !.status = status, !.why = why,
              !.reshaped = (r.entry # NoSnapshot /\ n.shape # r.entry.net.shape),
              !.rewrote = (r.entry # NoSnapshot /\ n.data # r.entry.net.data),
              !.entry = NoSnapshot]

\* ---------------------------------------------------------------- Run, step by step
\* lines 133-157
RunValidate(t) ==
    /\ CanCall(t)
    /\ \E targets \in BOOLEAN, nin \in 0..MaxInputs :
         \E first \in IF nin = 0 THEN {<<>>} ELSE TensorShapes :
            LET why == ValidateRequest(targets, nin, first,
                                       Cardinality(DOMAIN input_blob_map_))
                r == [th[t] EXCEPT !.op = "Run", !.targ = targets, !.nin = nin,
                                  !.first = first, !.outputs = <<StaleTensor>>,
                                  !.entry = IF serialized
                                            THEN Snapshot(net, batch_size_)
                                            ELSE NoSnapshot,
                                  !.cap0 = batch_size_]
            IN /\ th' = [th EXCEPT ![t] =
                    IF why = "ok"
                    THEN [r EXCEPT !.pc = "grow", !.batch = first[1]]
                    ELSE Return(r, "InvalidArgument", why, net, batch_size_)]
               /\ seen' = IF why = "ok" /\ run_only THEN Max(seen, first[1]) ELSE seen
    /\ Fixed
    /\ UNCHANGED <<net, params, batch_size_, crashed>>

\* lines 159-161
RunGrow(t) ==
    /\ CanStep(t)
    /\ th[t].pc = "grow"
    /\ IF NeedsReshape(batch_size_, th[t].batch)
       THEN LET r == Reshape(graph, net, batch_size_, th[t].batch)
            IN /\ net' = r.net
               /\ batch_size_' = r.batch_size_
               /\ th' = [th EXCEPT ![t] =
                    IF r.status = "OK"
                    THEN [@ EXCEPT !.pc = "copy", !.grew = @ + 1]
                    ELSE Return([@ EXCEPT !.grew = @ + 1], r.status, "reshape",
                                r.net, r.batch_size_)]
       ELSE /\ th' = [th EXCEPT ![t] = [@ EXCEPT !.pc = "copy"]]
            /\ UNCHANGED <<net, batch_size_>>
    /\ Fixed
    /\ UNCHANGED <<params, crashed, seen>>

\* lines 165-181, one iteration: the next pair of inputs
RunCopy(t) ==
    /\ CanStep(t)
    /\ th[t].pc = "copy"
    /\ \E name \in InputNames(graph),
          shape \in (IF th[t].names = <<>> THEN {th[t].first} ELSE TensorShapes) :
         LET why == CheckInput(input_blob_map_, name, shape, th[t].batch)
             r == [th[t] EXCEPT !.names = Append(@, name), !.dims = Append(@, shape[1])]
         IN IF why # "ok"
            THEN /\ th' = [th EXCEPT ![t] =
                        Return(r, "InvalidArgument", why, net, batch_size_)]
                 /\ UNCHANGED <<net, crashed>>
            ELSE \E outcome \in CopyOutcomes(net, input_blob_map_[name], shape) :
                    IF outcome = "abort"
                    THEN /\ crashed' = TRUE
                         /\ th' = [th EXCEPT ![t] = r]
                         /\ UNCHANGED net
                    ELSE /\ net' = CopyInput(net, input_blob_map_[name], Tag(t), outcome)
                         /\ th' = [th EXCEPT ![t] =
                                IF Len(r.names) = r.nin
                                THEN [r EXCEPT !.pc = "forward"]
                                ELSE r]
                         /\ UNCHANGED crashed
    /\ Fixed
    /\ UNCHANGED <<params, batch_size_, seen>>

\* lines 184-188: the forward pass, outputs->clear(), and the loop's first test
RunForward(t) ==
    /\ CanStep(t)
    /\ th[t].pc = "forward"
    /\ net' = NetForward(graph, net, params)
    /\ \E none \in BOOLEAN :
         th' = [th EXCEPT ![t] =
            LET r == [@ EXCEPT !.fwd = @ + 1, !.outputs = <<>>]
            IN IF none
               THEN Return(r, "OK", "", NetForward(graph, net, params), batch_size_)
               ELSE [r EXCEPT !.pc = "out"]]
    /\ Fixed
    /\ UNCHANGED <<params, batch_size_, crashed, seen>>

\* mutant: a requested name that is not bound is skipped
RunOutputSkipUnknown(t) ==
    /\ CanStep(t)
    /\ th[t].pc = "out"
    /\ \E name \in OutputNames(graph) :
         LET r == [th[t] EXCEPT !.outs = Append(@, name)]
         IN \E outcome \in (IF name \in DOMAIN output_blob_map_
                            THEN ReadOutcomes(net, output_blob_map_[name], r.batch)
                            ELSE {"skip"}) :
               IF outcome = "abort"
               THEN /\ crashed' = TRUE
                    /\ th' = [th EXCEPT ![t] = r]
               ELSE /\ LET q == IF outcome = "skip" THEN r
                                ELSE [r EXCEPT !.outputs = Append(@,
                                        OutputTensor(net, output_blob_map_[name],
                                                     r.batch, outcome))]
                       IN \E last \in
                            (IF Len(q.outs) = MaxOutputs THEN {TRUE} ELSE BOOLEAN) :
                            th' = [th EXCEPT ![t] =
                               IF last
                               THEN Return(q, "OK", "", net, batch_size_)
                               ELSE q]
                    /\ UNCHANGED crashed
    /\ Fixed
    /\ UNCHANGED <<net, params, batch_size_, seen>>

\* lines 188-202, one iteration: the next requested name, and the loop's test
RunOutput(t) ==
    /\ CanStep(t)
    /\ th[t].pc = "out"
    /\ \E name \in OutputNames(graph) :
         LET why == CheckOutput(output_blob_map_, name)
             r == [th[t] EXCEPT !.outs = Append(@, name)]
         IN IF why # "ok"
            THEN /\ th' = [th EXCEPT ![t] =
                        Return(r, "InvalidArgument", why, net, batch_size_)]
                 /\ UNCHANGED crashed
            ELSE \E outcome \in ReadOutcomes(net, output_blob_map_[name], r.batch) :
                    IF outcome = "abort"
                    THEN /\ crashed' = TRUE
                         /\ th' = [th EXCEPT ![t] = r]
                    ELSE /\ LET q == [r EXCEPT !.outputs = Append(@,
                                        OutputTensor(net, output_blob_map_[name],
                                                     r.batch, outcome))]
                            IN \E last \in
                                 (IF Len(q.outs) = MaxOutputs THEN {TRUE} ELSE BOOLEAN) :
                                 th' = [th EXCEPT ![t] =
                                    IF last
                                    THEN Return(q, "OK", "", net, batch_size_)
                                    ELSE q]
                         /\ UNCHANGED crashed
    /\ Fixed
    /\ UNCHANGED <<net, params, batch_size_, seen>>

\* ---------------------------------------------------------------- Reshape, LoadWeights
\* CaffeServingSession::Reshape called by the owner (pre-warming)
CallReshape(t) ==
    /\ CanCall(t)
    /\ ~run_only
    /\ \E c \in 0..MaxBatch :
         LET r == Reshape(graph, net, batch_size_, c)
         IN /\ net' = r.net
            /\ batch_size_' = r.batch_size_
            /\ th' = [th EXCEPT ![t] =
                    Return([th[t] EXCEPT !.op = "Reshape", !.c = c,
                                        !.entry = Snapshot(net, batch_size_),
                                        !.cap0 = batch_size_,
                                        !.shape0 = net.shape, !.props = r.props],
                           r.status, "", r.net, r.batch_size_)]
    /\ Fixed
    /\ UNCHANGED <<params, crashed, seen>>

\* mutant: the file is read into the net's own parameters, parsed or not
LoadWeightsClobber(w, file) ==
    IF file = "missing" THEN [status |-> "InvalidArgument", params |-> "partial", abort |-> FALSE]
    ELSE IF file = "misshapen" THEN [status |-> "", params |-> w, abort |-> TRUE]
    ELSE [status |-> "OK", params |-> "w1", abort |-> FALSE]

\* CaffeServingSession::CopyTrainedLayersFromBinaryProto: an unreadable file
\* is an error, parameters that do not fit the topology abort the process
LoadWeights(w, file) ==
    IF file = "missing" THEN [status |-> "InvalidArgument", params |-> w, abort |-> FALSE]
    ELSE IF file = "misshapen" THEN [status |-> "", params |-> w, abort |-> TRUE]
    ELSE [status |-> "OK", params |-> "w1", abort |-> FALSE]

CallLoadWeights(t) ==
    /\ CanCall(t)
    /\ ~run_only
    /\ \E file \in WeightFiles :
         LET r == LoadWeights(params, file)
         IN /\ params' = r.params
            /\ crashed' = r.abort
            /\ th' = [th EXCEPT ![t] =
                    Return([th[t] EXCEPT !.op = "LoadWeights", !.file = file,
                                        !.entry = Snapshot(net, batch_size_),
                                        !.cap0 = batch_size_, !.params0 = params],
                           r.status, "", net, batch_size_)]
    /\ Fixed
    /\ UNCHANGED <<net, batch_size_, seen>>

\* the caller takes the status and the results; the thread can call again,
\* and what its call wrote is from now on the data of an earlier call
Collect(t) ==
    /\ ~crashed
    /\ th[t].pc = "done"
    /\ th' = [th EXCEPT ![t] =
            [Idle EXCEPT !.prev =
                IF th[t].op = "Reshape" /\ th[t].status = "OK" THEN th[t].c ELSE 0]]
    /\ net' = AgeNet(net, t)
    /\ Fixed
    /\ UNCHANGED <<params, batch_size_, crashed, seen>>

\* ---------------------------------------------------------------- further instances
\* the process constructs one more adapter (lines 101-124): the constructor
\* calls TryAssignGPU (line 106) and estimates the capacity (line 118)
ConstructInstance ==
    /\ Len(instances) < MaxInstances
    /\ \E g \in Topologies :
         instances' = Append(instances,
                             [graph |-> g, batch_size_ |-> BatchSizeOf(g, NetInit(g))])
    /\ caffe_mode' = TryAssignGPU(gpu_count, caffe_device).mode
    /\ caffe_device' = TryAssignGPU(gpu_count, caffe_device).device
    /\ selections' = selections + 1
    /\ UNCHANGED <<graph, net, params, input_blob_map_, output_blob_map_, batch_size_,
                   crashed, callers, serialized, run_only, th, seen, gpu_count>>

\* ---------------------------------------------------------------- specifications
Next ==
    \E t \in Threads :
        \/ RunValidate(t)
        \/ RunGrow(t)
        \/ RunCopy(t)
        \/ RunForward(t)
        \/ RunOutput(t)
        \/ CallReshape(t)
        \/ CallLoadWeights(t)
        \/ Collect(t)

Spec == Init /\ [][Next]_vars

\* two threads that call nothing but Run
NextConc ==
    \E t \in Threads :
        \/ RunValidate(t)
        \/ RunGrow(t)
        \/ RunCopy(t)
        \/ RunForward(t)
        \/ RunOutput(t)
        \/ Collect(t)

SpecConc == InitConc /\ [][NextConc]_vars

\* a process that constructs one adapter after another
NextProc == ConstructInstance

SpecProc == InitProc /\ [][NextProc]_vars

\* ---------------------------------------------------------------- properties
Returned(t) == th[t].pc = "done"
RunReturned(t) == Returned(t) /\ th[t].op = "Run"
RunEntered(t) == th[t].pc # "idle" /\ th[t].op = "Run"
Rejected(t) == RunReturned(t) /\ th[t].status = "InvalidArgument"
Succeeded(t) == RunReturned(t) /\ th[t].status = "OK"

\* the errors of steps 1-5 of Run
ValidationErrors ==
    {"targets", "count", "rank", "batch", "unknown_input", "batch_mismatch"}

InitialEstimate == BatchSizeOf(graph, NetInit(graph))

\* C1: a Run call that returns a validation error leaves every blob's
\* contents, every blob's shape and the capacity as they were at entry.
C1_NoPartialSuccess ==
    \A t \in Threads :
        (Rejected(t) /\ th[t].why \in ValidationErrors) =>
            /\ ~th[t].rewrote
            /\ ~th[t].reshaped
            /\ batch_size_ = th[t].cap0

\* C2: no public operation (Run, Reshape, LoadWeights) returns with a
\* capacity below the capacity it was entered with.
C2_CapacityNeverShrinks ==
    \A t \in Threads : Returned(t) => batch_size_ >= th[t].cap0

\* C3: while the adapter serves nothing but Run, the capacity is at least
\* the initial estimate and at least every batch size a call has determined
\* (once the call is past its capacity step), and no Run call lowers it.
C3_RunKeepsCapacityAboveBatches ==
    /\ (run_only /\ \A t \in Threads : th[t].pc # "grow") =>
            batch_size_ >= Max(InitialEstimate, seen)
    /\ \A t \in Threads : RunEntered(t) => batch_size_ >= th[t].cap0

C3_GrownByRejectedCall ==
    /\ run_only
    /\ Rejected(1)
    /\ th[1].why = "unknown_input"
    /\ th[1].grew = 1
    /\ th[1].cap0 = 1
    /\ seen = 2
    /\ batch_size_ = 2

\* C4: every declared input blob of rank > 1 with a positive leading
\* dimension has the capacity as its leading dimension.
C4_InputBlobsHoldCapacity ==
    \A k \in DOMAIN graph.inputs :
        Qualifies(net.shape[graph.inputs[k]]) =>
            net.shape[graph.inputs[k]][1] = batch_size_

\* C5: a Run call that returns success returns one tensor per requested
\* name, in the order of the names: tensor i is of the blob bound to name i
\* and has the shape (leading dimension of the first input, declared
\* per-example size of that blob).
C5_OneTensorPerOutputName ==
    \A t \in Threads :
        Succeeded(t) =>
            /\ Len(th[t].outputs) = Len(th[t].outs)
            /\ \A i \in DOMAIN th[t].outs :
                /\ th[t].outs[i] \in DOMAIN output_blob_map_
                /\ th[t].outputs[i].blob = output_blob_map_[th[t].outs[i]]
                /\ th[t].outputs[i].shape =
                        <<th[t].first[1], graph.shapes[th[t].outputs[i].blob][2]>>

C5_TwoOutputsBelowCapacity ==
    /\ Succeeded(1)
    /\ th[1].outs = <<"prob", "feat">>
    /\ th[1].first[1] = 1
    /\ batch_size_ = 2

\* C6: a Run call with target nodes, with no input or fewer inputs than
\* declared bindings, or with a first input of rank < 2 or of leading
\* dimension < 1 returns InvalidArgument and runs no forward pass.
C6_RejectionInvariants ==
    \A t \in Threads :
        (/\ RunEntered(t)
         /\ \/ th[t].targ
            \/ th[t].nin = 0
            \/ th[t].nin < Cardinality(DOMAIN input_blob_map_)
            \/ Len(th[t].first) < 2
            \/ th[t].first[1] < 1) =>
            /\ Rejected(t)
            /\ th[t].fwd = 0

C6_TargetsWithValidInputs ==
    /\ Rejected(1)
    /\ th[1].targ
    /\ th[1].nin = Cardinality(DOMAIN input_blob_map_)
    /\ th[1].first = <<1, 2>>
    /\ th[1].why = "targets"

\* the tags of the input blobs an output tensor was computed from are the
\* caller's own, for every input blob the call wrote
FromOwnInputs(t, d) ==
    /\ Len(d) = 1 + Len(graph.inputs)
    /\ \A k \in DOMAIN graph.inputs :
        graph.names[graph.inputs[k]] \in Range(th[t].names) => d[k + 1] = Tag(t)

\* C7: when the callers keep at most one call in flight, every tensor a
\* successful Run returns was computed from the inputs of that call.
C7_SerializedCallsSeeOwnInputs ==
    serialized =>
        \A t \in Threads :
            Succeeded(t) =>
                \A i \in DOMAIN th[t].outputs : FromOwnInputs(t, th[t].outputs[i].data)

\* C7: without that guarantee a call returns success with a tensor that was
\* not computed from its own inputs.
C7_InterleavedCallSeesForeignInputs ==
    /\ ~serialized
    /\ \E t \in Threads :
        /\ Succeeded(t)
        /\ \E i \in DOMAIN th[t].outputs : ~FromOwnInputs(t, th[t].outputs[i].data)

\* C8: Reshape(c) with c >= 1 returns success, and called right after a
\* Reshape(c) it changes neither the capacity nor any blob.
C8_ReshapeIdempotent ==
    \A t \in Threads :
        (Returned(t) /\ th[t].op = "Reshape" /\ th[t].c >= 1) =>
            /\ th[t].status = "OK"
            /\ th[t].prev = th[t].c =>
                /\ batch_size_ = th[t].cap0
                /\ batch_size_ = th[t].c
                /\ ~th[t].reshaped
                /\ ~th[t].rewrote

C8_SecondReshape ==
    /\ Returned(1)
    /\ th[1].op = "Reshape"
    /\ th[1].c = 2
    /\ th[1].prev = 2
    /\ graph = Uneven

\* C9: a Run call runs the forward pass at most once, only after the
\* checks of steps 1-5 have passed for all of its inputs, and not at all
\* when it returns a validation error.
C9_ForwardAfterValidation ==
    \A t \in Threads :
        RunEntered(t) =>
            /\ th[t].fwd <= 1
            /\ (Rejected(t) /\ th[t].why \in ValidationErrors) => th[t].fwd = 0
            /\ th[t].fwd = 1 =>
                /\ ~th[t].targ
                /\ th[t].nin >= 1
                /\ th[t].nin >= Cardinality(DOMAIN input_blob_map_)
                /\ Len(th[t].first) >= 2
                /\ th[t].first[1] >= 1
                /\ Len(th[t].names) = th[t].nin
                /\ \A k \in DOMAIN th[t].names :
                    /\ th[t].names[k] \in DOMAIN input_blob_map_
                    /\ th[t].dims[k] = th[t].first[1]

C9_ForwardThenOutputError ==
    /\ Rejected(1)
    /\ th[1].why = "unknown_output"
    /\ th[1].fwd = 1
    /\ th[1].nin = 2

\* C10: a Run call that has read an input whose leading dimension differs
\* from the leading dimension of its first input returns nothing but
\* InvalidArgument.
C10_BatchMismatchRejected ==
    \A t \in Threads :
        (RunReturned(t) /\ \E k \in DOMAIN th[t].dims : th[t].dims[k] # th[t].first[1]) =>
            th[t].status = "InvalidArgument"

C10_SecondInputMismatch ==
    /\ Rejected(1)
    /\ th[1].why = "batch_mismatch"
    /\ th[1].first[1] = 1
    /\ th[1].dims = <<1, 2>>
    /\ th[1].cap0 = 2


\* C11: a Run call that has read an input name that is not in the input
\* binding table, or a requested output name that is not in the output
\* binding table, returns InvalidArgument and not success, whatever the
\* adapter's state and the other entries of the request are.
C11_UnknownNamesRejected ==
    \A t \in Threads :
        (/\ RunReturned(t)
         /\ \/ \E k \in DOMAIN th[t].names : th[t].names[k] \notin DOMAIN input_blob_map_
            \/ \E i \in DOMAIN th[t].outs : th[t].outs[i] \notin DOMAIN output_blob_map_)
        => th[t].status = "InvalidArgument"

C11_UnknownOutputAfterKnown ==
    /\ Rejected(1)
    /\ th[1].names = <<"data">>
    /\ th[1].outs = <<"prob", "bogus">>
    /\ th[1].why = "unknown_output"
    /\ batch_size_ = 2

\* C12: a LoadWeights call on a file that cannot be read or parsed returns
\* InvalidArgument, and the parameters, every blob's contents and shape,
\* the capacity and both binding tables are what they were when the call
\* was entered - before the first Run as well as after Run, Reshape and
\* successful LoadWeights calls.
C12_FailedLoadChangesNothing ==
    \A t \in Threads :
        (Returned(t) /\ th[t].op = "LoadWeights" /\ th[t].file = "missing") =>
            /\ th[t].status = "InvalidArgument"
            /\ params = th[t].params0
            /\ ~th[t].rewrote
            /\ ~th[t].reshaped
            /\ batch_size_ = th[t].cap0
            /\ input_blob_map_ = BlobMap(graph, graph.inputs)
            /\ output_blob_map_ = BlobMap(graph, graph.outputs)

C12_FailedLoadAfterRuns ==
    /\ Returned(1)
    /\ th[1].op = "LoadWeights"
    /\ th[1].file = "missing"
    /\ th[1].status = "InvalidArgument"
    /\ params = "w1"
    /\ batch_size_ = 2
    /\ net.data[graph.outputs[1]] = <<"w1", Old>>

\* C13: the capacity is at least 1 in every reachable state: the estimate
\* of every constructed adapter is at least 1 (also with no input blob or
\* with none of rank > 1), a Reshape call with a batch size below 1 returns
\* InvalidArgument and leaves the capacity and every shape as they were,
\* and no Run call leaves a capacity below 1.
C13_CapacityAtLeastOne ==
    /\ batch_size_ >= 1
    /\ \A i \in DOMAIN instances : instances[i].batch_size_ >= 1
    /\ \A t \in Threads :
        (Returned(t) /\ th[t].op = "Reshape" /\ th[t].c < 1) =>
            /\ th[t].status = "InvalidArgument"
            /\ batch_size_ = th[t].cap0
            /\ net.shape = th[t].shape0
            /\ ~th[t].rewrote

C13_ReshapeToZeroWithoutInputs ==
    /\ graph = Sourceless
    /\ Returned(1)
    /\ th[1].op = "Reshape"
    /\ th[1].c = 0
    /\ th[1].status = "InvalidArgument"
    /\ batch_size_ = 1

C15_RunGrowsExactlyWhenNeeded ==
    \A t \in Threads :
        (RunEntered(t) /\ th[t].batch > 0) =>
            /\ th[t].pc = "grow" =>
                    th[t].grew = 0 /\ th[t].names = <<>> /\ batch_size_ = th[t].cap0
            /\ th[t].pc # "grow" =>
                /\ th[t].grew = (IF th[t].batch > th[t].cap0 THEN 1 ELSE 0)
                /\ th[t].batch > th[t].cap0 => batch_size_ = th[t].batch
                /\ th[t].batch <= th[t].cap0 =>
                        /\ batch_size_ = th[t].cap0
                        /\ Returned(t) => ~th[t].reshaped

C15_GrownFromOneToTwo ==
    /\ Succeeded(1)
    /\ th[1].cap0 = 1
    /\ th[1].batch = 2
    /\ th[1].grew = 1
    /\ batch_size_ = 2
    /\ th[1].outputs = <<[blob |-> 3, shape |-> <<2, 2>>, data |-> <<"w0", "t1">>]>>

\* C16: a Reshape call with a batch size c >= 1 other than the capacity
\* returns success with every input blob of rank > 1 and positive leading
\* dimension at leading dimension c, its other dimensions as before, and
\* every other input blob at the shape it had; the shapes are propagated
\* once, after the resizes, so every blob fed by an input blob has that
\* blob's new leading dimension; the capacity is c.
C16_ReshapeResizesQualifyingInputs ==
    \A t \in Threads :
        (/\ Returned(t)
         /\ th[t].op = "Reshape"
         /\ th[t].c >= 1
         /\ th[t].c # th[t].cap0) =>
            /\ th[t].status = "OK"
            /\ \A k \in DOMAIN graph.inputs :
                LET idx == graph.inputs[k]
                IN net.shape[idx] =
                        IF Qualifies(th[t].shape0[idx])
                        THEN [th[t].shape0[idx] EXCEPT ![1] = th[t].c]
                        ELSE th[t].shape0[idx]
            /\ th[t].props = 1
            /\ \A i \in DOMAIN graph.names :
                graph.bottom[i] # 0 =>
                    net.shape[i] = <<net.shape[graph.bottom[i]][1], th[t].shape0[i][2]>>
            /\ batch_size_ = th[t].c

C16_MixedInputsReshaped ==
    /\ graph = Mixed
    /\ Returned(1)
    /\ th[1].op = "Reshape"
    /\ th[1].c = 2
    /\ th[1].cap0 = 1
    /\ th[1].status = "OK"
    /\ net.shape = << <<2, 2>>, <<2>>, <<2, 2>> >>

\* C17: a Run call that returns success has written every declared input
\* blob from an input of its own request - also when a name occurs more
\* than once in the request - so no declared input blob still holds the
\* data of an earlier call when the forward pass has read it.
C17_EveryDeclaredInputWritten ==
    \A t \in Threads :
        Succeeded(t) =>
            \A k \in DOMAIN graph.inputs :
                /\ graph.names[graph.inputs[k]] \in Range(th[t].names)
                /\ Old \notin Range(net.data[graph.inputs[k]])

\* C18: a Run call that returns an error leaves no tensor of its own in
\* the caller's result vector, also when the error is an unknown output
\* name that follows known ones (and is found after the forward pass).
C18_ErrorDeliversNoResults ==
    \A t \in Threads :
        Rejected(t) =>
            /\ \A i \in DOMAIN th[t].outputs : th[t].outputs[i] = StaleTensor
            /\ th[t].why = "unknown_output" => th[t].fwd = 1

\* C19: the capacity a constructor sets is the largest leading dimension
\* among the declared input blobs of rank > 1 with a positive leading
\* dimension, and 1 if there is no such blob.
C19_InitialCapacityIsMaxLeading ==
    \A i \in DOMAIN instances :
        LET g == instances[i].graph
            leading == {g.shapes[g.inputs[k]][1] : k \in
                            {l \in DOMAIN g.inputs :
                                /\ Len(g.shapes[g.inputs[l]]) >= 2
                                /\ g.shapes[g.inputs[l]][1] >= 1}}
        IN /\ instances[i].batch_size_ =
                    IF leading = {} THEN 1
                    ELSE CHOOSE m \in leading : \A x \in leading : x <= m
           /\ i = 1 => batch_size_ = instances[i].batch_size_

C19_UnevenThenFlat ==
    /\ Len(instances) = 2
    /\ instances[1].graph = Uneven
    /\ instances[1].batch_size_ = 2
    /\ instances[2].graph = Flat
    /\ instances[2].batch_size_ = 1

====
